---- MODULE Spec2Model ----
(***************************************************************************)
(* Model of main_scripts/trial_with_irq.py: the Doctor Strange costume     *)
(* driver.  Two execution contexts are modelled: the interrupt side        *)
(* (StateManager: button handlers and the one-shot re-arm timer) and the   *)
(* main loop (DoctorStrangeCostume.run_main_loop), which polls the request *)
(* flags through refresh_and_check_state between animation frames.         *)
(*                                                                         *)
(* Interrupt handlers and timer callbacks are atomic actions.  The main    *)
(* loop is split at every read or write of a request flag, so that a       *)
(* handler can run between any two flag accesses of the main loop.  The    *)
(* computation of one animation frame together with its update() touches   *)
(* main-loop state only and is one action.                                 *)
(***************************************************************************)
EXTENDS Integers, Sequences, FiniteSets, TLC

(***************************************************************************)
(* Sizes.  The strip has 144 pixels on the device (trial_with_irq.py:121); *)
(* the model is checked on a short strip.  MaxEdges caps the ghost counter *)
(* of rising edges seen on one line since the line was last re-armed.      *)
(***************************************************************************)
num_leds == 6
MaxEdges == 2
MaxFaults == 1

\* Program constants, trial_with_irq.py
num_charging_waves == 3
num_times_to_charge == 2
target_value == 15
num_steps == 20
max_val == 255
num_resonations == 5
periods_ignored == num_charging_waves - 1

Lines == {"charge", "good_evil", "off"}
Pix == 0 .. (num_leds - 1)

\* Variant: the table without its last entry
resonating_value_modifiers_Short ==
    << 0, 1, 2, 3, 4, 5, 6, 7, 8, 9, 10, 11, 12, 13, 14, 15, 16, 17, 18, 19, 20,
       19, 18, 17, 16, 15, 14, 13, 12, 11, 10, 9, 8, 7, 6, 5, 4, 3, 2 >>

resonating_value_modifiers ==
    << 0, 1, 2, 3, 4, 5, 6, 7, 8, 9, 10, 11, 12, 13, 14, 15, 16, 17, 18, 19, 20,
       19, 18, 17, 16, 15, 14, 13, 12, 11, 10, 9, 8, 7, 6, 5, 4, 3, 2, 1 >>

resonating_values ==
    [ j \in 1 .. Len(resonating_value_modifiers) |->
        target_value + resonating_value_modifiers[j] ]

\* Variant: the resonating range starts at the first pixel of the last period
starting_point_for_resonating_Whole ==
    (num_leds * periods_ignored) \div num_charging_waves

\* starting_point_for_resonating = int(lights_per_period * periods_ignored + 1)
\* with lights_per_period = num_leds / num_charging_waves
starting_point_for_resonating ==
    (num_leds * periods_ignored + num_charging_waves) \div num_charging_waves

(***************************************************************************)
(* Fixed-point arithmetic for the sinusoid of the charge phase.  Numbers   *)
(* are scaled by FixOne = FixLimb^2 and multiplied limb-wise so that every *)
(* intermediate value stays below 2^31.                                    *)
(***************************************************************************)
FixLimb == 4096
FixOne == FixLimb * FixLimb
FixTwoPi == 105414357            \* round(2 * pi * FixOne)

FixMul(a, b) ==
    LET ah == a \div FixLimb
        al == a % FixLimb
        bh == b \div FixLimb
        bl == b % FixLimb
    IN  ah * bh + ((ah * bl + al * bh) \div FixLimb) + ((al * bl) \div FixOne)

\* cos(2*pi*p/q) * FixOne for 0 <= p/q <= 1/4, by the Taylor series of cos
FixCosQuarter(p, q) ==
    LET a  == (FixTwoPi \div q) * p + (((FixTwoPi % q) * p) \div q)
        x  == FixMul(a, a)
        t6 == FixOne - (x \div 132)
        t5 == FixOne - (FixMul(x, t6) \div 90)
        t4 == FixOne - (FixMul(x, t5) \div 56)
        t3 == FixOne - (FixMul(x, t4) \div 30)
        t2 == FixOne - (FixMul(x, t3) \div 12)
    IN  FixOne - (FixMul(x, t2) \div 2)

\* cos(2*pi*r/n) * FixOne for 0 <= r < n
FixCosTurn(r, n) ==
    LET s == IF 2 * r > n THEN n - r ELSE r
    IN  IF 4 * s > n THEN 0 - FixCosQuarter(n - 2 * s, 2 * n)
                     ELSE FixCosQuarter(s, n)

(***************************************************************************)
(* The value given to pixel 0 in iteration `iteration` of the charge loop: *)
(*   int(amplitude + amplitude * sin(pixels[0].x - this_shift))            *)
(* with amplitude = max_val / 2, pixels[0].x = -pi/2 and                   *)
(* this_shift = iteration * 2*pi * num_charging_waves / num_leds, that is  *)
(*   floor(max_val/2 * (1 - cos(2*pi * iteration*waves / num_leds))).      *)
(***************************************************************************)
ChargeWaveValue(iteration) ==
    LET r  == (num_charging_waves * iteration) % num_leds
        v  == FixOne - FixCosTurn(r, num_leds)
        vh == v \div (2 * FixLimb)
        vl == v % (2 * FixLimb)
    IN  (max_val * vh + ((max_val * vl) \div (2 * FixLimb))) \div FixLimb

\* Python's int() of a quotient n/d with d > 0: truncation toward zero
TruncDiv(n, d) == IF n >= 0 THEN n \div d ELSE 0 - ((0 - n) \div d)

(***************************************************************************)
(* StrangePixel.set_pixel_intensity: the pixel that results from storing   *)
(* `value` under the colour scheme `is_evil`.                              *)
(***************************************************************************)
\* Variant: the two colour schemes exchanged
set_pixel_intensity_Swapped(value, is_evil) ==
    [ intensity |-> value,
      red       |-> IF is_evil THEN 0 ELSE value,
      green     |-> IF is_evil THEN value ELSE 0,
      blue      |-> IF is_evil THEN 0 ELSE value ]

set_pixel_intensity(value, is_evil) ==
    [ intensity |-> value,
      red       |-> IF is_evil THEN value ELSE 0,
      green     |-> IF is_evil THEN 0 ELSE value,
      blue      |-> IF is_evil THEN value ELSE 0 ]

\* The frame update() writes to the strip: one (r, g, b) per pixel
FrameOf(px) == [ i \in Pix |-> << px[i].red, px[i].green, px[i].blue >> ]


\* Variant: the fade step without the clamp at 0
FadeStepValue_NoClamp(cur, size) == TruncDiv(num_steps * cur + size, num_steps)

\* One fade step of one pixel: int(intensity + step_size), clamped at 0 only.
\* step_size is kept as its numerator `size` = target_value - start intensity;
\* the float step is size / num_steps.
FadeStepValue(cur, size) ==
    LET new_intensity == TruncDiv(num_steps * cur + size, num_steps)
    IN  IF new_intensity < 0 THEN 0 ELSE new_intensity

\* Variant: no final pass, the pixel keeps what the fade loop left
SnapValue_Keep(cur) == cur

\* The value every pixel gets in the final pass after the fade loop
SnapValue(cur) == target_value

(***************************************************************************)
(* State                                                                   *)
(***************************************************************************)
VARIABLES
    charge_requested,            \* StateManager.charge_requested
    toggle_good_evil_requested,  \* StateManager.toggle_good_evil_requested
    abort_requested,             \* StateManager.abort_requested
    evil,                        \* StateManager.evil
    irq,                         \* line -> is a rising-edge handler registered
    timer,                       \* the line the one shared Timer will re-arm, or "none"
    pixels,                      \* index -> [intensity, red, green, blue]
    strip,                       \* the frame last written by update()
    pc,                          \* position of the main loop
    phase,                       \* "idle", "charge", "fade" or "resonate"
    should_restart_main_loop,
    iteration,                   \* loop variable of the charge loop
    step,                        \* loop variable of the fade loop
    step_sizes,                  \* index -> numerator of the fade step
    rep,                         \* loop variable of the resonate loop
    val_idx,                     \* position in resonating_values
    \* history variables, read by the properties only
    edges,                       \* line -> rising edges since the line was last armed
    sets,                        \* line -> handler executions since the line was last armed
    abort_age,                   \* frames flushed since an abort press made in the charge phase, -1 if none
    since_poll,                  \* phase frames flushed since refresh_and_check_state was last entered
    fresh_charge,                \* handler_charge ran while no cycle was in progress, and no cycle started since
    cycle_press,                 \* handler_charge ran during the current or the last cycle
    started,                     \* a charge cycle has started since construction
    stale_abort,                 \* the pending abort press is older than the pending charge press
    faults                       \* exceptions raised inside the try block so far

flags == << charge_requested, toggle_good_evil_requested, abort_requested >>
irqv  == << irq, timer, edges, sets >>
loopv == << pc, phase, should_restart_main_loop, iteration, step, step_sizes, rep, val_idx >>
ghost == << abort_age, since_poll, fresh_charge, cycle_press >>
hist  == << started, stale_abort, faults >>
vars  == << charge_requested, toggle_good_evil_requested, abort_requested, evil,
            irq, timer, pixels, strip, pc, phase, should_restart_main_loop,
            iteration, step, step_sizes, rep, val_idx,
            edges, sets, abort_age, since_poll, fresh_charge, cycle_press,
            started, stale_abort, faults >>

InCycle == pc \notin {"main", "sleep"}

\* Variant: the pixels are constructed at the target intensity
Init_Lit ==
    /\ charge_requested = FALSE
    /\ toggle_good_evil_requested = FALSE
    /\ abort_requested = FALSE
    /\ evil = FALSE
    /\ irq = [ l \in Lines |-> TRUE ]
    /\ timer = "none"
    /\ pixels = [ i \in Pix |-> set_pixel_intensity(target_value, FALSE) ]
    /\ strip = FrameOf(pixels)
    /\ pc = "main"
    /\ phase = "idle"
    /\ should_restart_main_loop = FALSE
    /\ iteration = 0
    /\ step = 0
    /\ step_sizes = [ i \in Pix |-> 0 ]
    /\ rep = 0
    /\ val_idx = 1
    /\ edges = [ l \in Lines |-> 0 ]
    /\ sets = [ l \in Lines |-> 0 ]
    /\ abort_age = -1
    /\ since_poll = 0
    /\ fresh_charge = FALSE
    /\ cycle_press = FALSE
    /\ started = FALSE
    /\ stale_abort = FALSE
    /\ faults = 0

\* DoctorStrangeCostume.__init__ and StateManager.__init__
Init ==
    /\ charge_requested = FALSE
    /\ toggle_good_evil_requested = FALSE
    /\ abort_requested = FALSE
    /\ evil = FALSE
    /\ irq = [ l \in Lines |-> TRUE ]
    /\ timer = "none"
    /\ pixels = [ i \in Pix |-> [intensity |-> 0, red |-> 0, green |-> 0, blue |-> 0] ]
    /\ strip = [ i \in Pix |-> << 0, 0, 0 >> ]
    /\ pc = "main"
    /\ phase = "idle"
    /\ should_restart_main_loop = FALSE
    /\ iteration = 0
    /\ step = 0
    /\ step_sizes = [ i \in Pix |-> 0 ]
    /\ rep = 0
    /\ val_idx = 1
    /\ edges = [ l \in Lines |-> 0 ]
    /\ sets = [ l \in Lines |-> 0 ]
    /\ abort_age = -1
    /\ since_poll = 0
    /\ fresh_charge = FALSE
    /\ cycle_press = FALSE
    /\ started = FALSE
    /\ stale_abort = FALSE
    /\ faults = 0

(***************************************************************************)
(* Interrupt side: StateManager                                            *)
(***************************************************************************)
\* Variant: the handler leaves itself registered
IrqAfterHandler_Keep(l) == irq

\* The line's edge detection after its handler ran: irq(handler=None)
IrqAfterHandler(l) == [ irq EXCEPT ![l] = FALSE ]

\* The shared timer after timer.init(..., callback=initialize_<l>_button):
\* init() re-programs the one Timer object, dropping a callback still pending
TimerAfterHandler(l) == l

CountHandled(l) ==
    /\ edges' = [ edges EXCEPT ![l] = IF @ < MaxEdges THEN @ + 1 ELSE @ ]
    /\ sets'  = [ sets  EXCEPT ![l] = IF @ < MaxEdges THEN @ + 1 ELSE @ ]

\* A rising edge on the charge line while its handler is registered
handler_charge ==
    /\ irq["charge"]
    /\ irq' = IrqAfterHandler("charge")
    /\ charge_requested' = TRUE
    /\ timer' = TimerAfterHandler("charge")
    /\ CountHandled("charge")
    /\ fresh_charge' = (fresh_charge \/ ~InCycle)
    /\ cycle_press' = (cycle_press \/ InCycle)
    /\ stale_abort' = IF ~InCycle /\ ~charge_requested THEN abort_requested ELSE stale_abort
    /\ UNCHANGED << toggle_good_evil_requested, abort_requested, evil, pixels, strip,
                    loopv, abort_age, since_poll, started, faults >>

\* Variant: the handler flips the colour scheme itself
handler_trigger_good_evil_Flip ==
    /\ irq["good_evil"]
    /\ irq' = IrqAfterHandler("good_evil")
    /\ toggle_good_evil_requested' = TRUE
    /\ evil' = ~evil
    /\ timer' = TimerAfterHandler("good_evil")
    /\ CountHandled("good_evil")
    /\ UNCHANGED << charge_requested, abort_requested, pixels, strip, loopv, ghost, hist >>

\* A rising edge on the moral line while its handler is registered
handler_trigger_good_evil ==
    /\ irq["good_evil"]
    /\ irq' = IrqAfterHandler("good_evil")
    /\ toggle_good_evil_requested' = TRUE
    /\ timer' = TimerAfterHandler("good_evil")
    /\ CountHandled("good_evil")
    /\ UNCHANGED << charge_requested, abort_requested, evil, pixels, strip, loopv, ghost, hist >>

\* A rising edge on the abort line while its handler is registered
handler_should_abort ==
    /\ irq["off"]
    /\ irq' = IrqAfterHandler("off")
    /\ abort_requested' = TRUE
    /\ timer' = TimerAfterHandler("off")
    /\ CountHandled("off")
    /\ abort_age' = IF phase = "charge" /\ abort_age = -1 THEN 0 ELSE abort_age
    /\ stale_abort' = FALSE
    /\ UNCHANGED << charge_requested, toggle_good_evil_requested, evil, pixels, strip,
                    loopv, since_poll, fresh_charge, cycle_press, started, faults >>

\* A rising edge on a line whose handler is not registered: nothing runs
IgnoredEdge(l) ==
    /\ ~irq[l]
    /\ edges[l] < MaxEdges
    /\ edges' = [ edges EXCEPT ![l] = @ + 1 ]
    /\ UNCHANGED << flags, evil, irq, timer, sets, pixels, strip, loopv, ghost, hist >>

\* Expiry of the one-shot timer: the pending callback re-registers its handler
TimerCallback(l) ==
    /\ timer = l
    /\ irq' = [ irq EXCEPT ![l] = TRUE ]
    /\ timer' = "none"
    /\ edges' = [ edges EXCEPT ![l] = 0 ]
    /\ sets' = [ sets EXCEPT ![l] = 0 ]
    /\ UNCHANGED << flags, evil, pixels, strip, loopv, ghost, hist >>

initialize_charge_button == TimerCallback("charge")
initialize_good_evil_button == TimerCallback("good_evil")
initialize_off_button == TimerCallback("off")

(***************************************************************************)
(* Main loop: DoctorStrangeCostume                                         *)
(***************************************************************************)
AgeAfterFrame == IF abort_age >= 0 /\ abort_age < 2 THEN abort_age + 1 ELSE abort_age

\* Where refresh_and_check_state returns to when it returns True
FramePc == CASE phase = "charge"   -> "charge_frame"
             [] phase = "fade"     -> "fade_frame"
             [] phase = "resonate" -> "res_frame"

\* The locals of one pass of the while loop are dead once the pass is left
\* (each is assigned again before it is read): they go back to their initial
\* values, so that states differing only in dead values are one state
DropLocals ==
    /\ iteration' = 0
    /\ step' = 0
    /\ step_sizes' = [ i \in Pix |-> 0 ]
    /\ rep' = 0
    /\ val_idx' = 1

\* Lines 153-159: the head of the while loop
MainLoopTop ==
    /\ pc = "main"
    /\ should_restart_main_loop' = FALSE
    /\ IF charge_requested
         THEN /\ charge_requested' = FALSE
              /\ pc' = "r135"
              /\ phase' = "charge"
              /\ iteration' = 0
              /\ abort_age' = -1
              /\ since_poll' = 0
              /\ fresh_charge' = FALSE
              /\ cycle_press' = FALSE
              /\ started' = TRUE
              /\ UNCHANGED << stale_abort, faults >>
         ELSE /\ pc' = "sleep"
              /\ UNCHANGED << charge_requested, phase, iteration, ghost, hist >>
    /\ UNCHANGED << toggle_good_evil_requested, abort_requested, evil, irqv, pixels, strip,
                    step, step_sizes, rep, val_idx >>

\* Lines 158-159: sleep(0.2); continue
Sleep ==
    /\ pc = "sleep"
    /\ pc' = "main"
    /\ UNCHANGED << flags, evil, irqv, pixels, strip, phase, should_restart_main_loop,
                    iteration, step, step_sizes, rep, val_idx, ghost, hist >>

\* Line 135: refresh_and_check_state reads abort_requested
CheckAbort ==
    /\ pc = "r135"
    /\ pc' = IF abort_requested THEN "turn_off" ELSE "r140"
    /\ since_poll' = 0
    /\ UNCHANGED << flags, evil, irqv, pixels, strip, phase, should_restart_main_loop,
                    iteration, step, step_sizes, rep, val_idx,
                    abort_age, fresh_charge, cycle_press, hist >>

\* Variant: turn_off also goes back to the good colour scheme
turn_off_ResetMode ==
    /\ pc = "turn_off"
    /\ evil' = FALSE
    /\ pixels' = [ i \in Pix |-> set_pixel_intensity(0, evil') ]
    /\ strip' = FrameOf(pixels')
    /\ pc' = "r244"
    /\ abort_age' = -1
    /\ stale_abort' = FALSE
    /\ UNCHANGED << flags, irqv, phase, should_restart_main_loop,
                    iteration, step, step_sizes, rep, val_idx,
                    since_poll, fresh_charge, cycle_press, started, faults >>

\* Lines 241-243: turn_off sets every pixel to 0 and flushes
turn_off ==
    /\ pc = "turn_off"
    /\ pixels' = [ i \in Pix |-> set_pixel_intensity(0, evil) ]
    /\ strip' = FrameOf(pixels')
    /\ pc' = "r244"
    /\ abort_age' = -1
    /\ stale_abort' = FALSE
    /\ UNCHANGED << flags, evil, irqv, phase, should_restart_main_loop,
                    iteration, step, step_sizes, rep, val_idx,
                    since_poll, fresh_charge, cycle_press, started, faults >>

\* Line 244: turn_off clears abort_requested
TurnOffClearAbort ==
    /\ pc = "r244"
    /\ abort_requested' = FALSE
    /\ pc' = "r137"
    /\ UNCHANGED << charge_requested, toggle_good_evil_requested, evil, irqv, pixels, strip,
                    phase, should_restart_main_loop, iteration, step, step_sizes, rep, val_idx,
                    ghost, hist >>

\* Line 137
AbortClearAbort ==
    /\ pc = "r137"
    /\ abort_requested' = FALSE
    /\ pc' = "r138"
    /\ UNCHANGED << charge_requested, toggle_good_evil_requested, evil, irqv, pixels, strip,
                    phase, should_restart_main_loop, iteration, step, step_sizes, rep, val_idx,
                    ghost, hist >>

\* Variant: the caller ignores the False it gets and goes on with its frame
AbortClearCharge_Resume ==
    /\ pc = "r138"
    /\ charge_requested' = FALSE
    /\ pc' = FramePc
    /\ UNCHANGED << toggle_good_evil_requested, abort_requested, evil, irqv, pixels, strip,
                    phase, should_restart_main_loop, iteration, step, step_sizes, rep, val_idx,
                    ghost, hist >>

\* Lines 138-139, and what the caller does with the False it gets: the charge
\* and fade loops set should_restart_main_loop, break and continue (171-172,
\* 186-187, 199-200, 209-210); the resonate loop breaks to line 234 (226-227)
AbortClearCharge ==
    /\ pc = "r138"
    /\ charge_requested' = FALSE
    /\ IF phase = "resonate"
         THEN /\ pc' = "r234"
              /\ UNCHANGED << phase, should_restart_main_loop >>
         ELSE /\ pc' = "main"
              /\ phase' = "idle"
              /\ should_restart_main_loop' = TRUE
    /\ IF phase = "resonate" THEN UNCHANGED << iteration, step, step_sizes, rep, val_idx >>
                             ELSE DropLocals
    /\ UNCHANGED << toggle_good_evil_requested, abort_requested, evil, irqv, pixels, strip,
                    ghost, hist >>

\* Line 140: refresh_and_check_state reads toggle_good_evil_requested
CheckToggle ==
    /\ pc = "r140"
    /\ pc' = IF toggle_good_evil_requested THEN "toggle" ELSE "r146"
    /\ UNCHANGED << flags, evil, irqv, pixels, strip, phase, should_restart_main_loop,
                    iteration, step, step_sizes, rep, val_idx, ghost, hist >>

\* Variant: the pixel is recoloured from its green channel
Recolor_FromGreen(p, is_evil) == set_pixel_intensity(p.green, is_evil)

\* Line 143: every pixel is set again to its own intensity under the new scheme
Recolor(p, is_evil) == set_pixel_intensity(p.intensity, is_evil)

\* Lines 141-144: flip the scheme, recolour every pixel, flush
ToggleGoodEvil ==
    /\ pc = "toggle"
    /\ evil' = ~evil
    /\ pixels' = [ i \in Pix |-> Recolor(pixels[i], evil') ]
    /\ strip' = FrameOf(pixels')
    /\ pc' = "r145"
    /\ UNCHANGED << flags, irqv, phase, should_restart_main_loop,
                    iteration, step, step_sizes, rep, val_idx, ghost, hist >>

\* Line 145
ClearToggle ==
    /\ pc = "r145"
    /\ toggle_good_evil_requested' = FALSE
    /\ pc' = "r146"
    /\ UNCHANGED << charge_requested, abort_requested, evil, irqv, pixels, strip,
                    phase, should_restart_main_loop, iteration, step, step_sizes, rep, val_idx,
                    ghost, hist >>

\* Line 146: refresh_and_check_state reads charge_requested; without a
\* pending charge request it returns True (line 148)
CheckCharge ==
    /\ pc = "r146"
    /\ pc' = IF charge_requested THEN "r147" ELSE FramePc
    /\ val_idx' = 1
    /\ UNCHANGED << flags, evil, irqv, pixels, strip, phase, should_restart_main_loop,
                    iteration, step, step_sizes, rep, ghost, hist >>

\* Lines 147-148: dismiss abort requests, return True
DismissAbort ==
    /\ pc = "r147"
    /\ abort_requested' = FALSE
    /\ pc' = FramePc
    /\ UNCHANGED << charge_requested, toggle_good_evil_requested, evil, irqv, pixels, strip,
                    phase, should_restart_main_loop, iteration, step, step_sizes, rep, val_idx,
                    ghost, hist >>

\* Variant: the inner loop walks from the beginning to the end, so every
\* pixel copies a neighbour that was already overwritten
ChargeShift_Forward(px, iter, is_evil) ==
    [ i \in Pix |-> IF i = 0
                      THEN set_pixel_intensity(ChargeWaveValue(iter), is_evil)
                      ELSE set_pixel_intensity(px[0].intensity, is_evil) ]

\* Lines 176-182: the intensities after one frame of the charge loop
ChargeShift(px, iter, is_evil) ==
    [ i \in Pix |-> IF i = 0
                      THEN set_pixel_intensity(ChargeWaveValue(iter), is_evil)
                      ELSE set_pixel_intensity(px[i - 1].intensity, is_evil) ]

\* Variant: the charge loop runs over the strip once
ChargeFrame_OnePass ==
    /\ pc = "charge_frame"
    /\ pixels' = ChargeShift(pixels, iteration, evil)
    /\ strip' = FrameOf(pixels')
    /\ iteration' = iteration + 1
    /\ pc' = IF iteration + 1 < num_leds THEN "r135" ELSE "step_sizes"
    /\ abort_age' = AgeAfterFrame
    /\ since_poll' = since_poll + 1
    /\ UNCHANGED << flags, evil, irqv, phase, should_restart_main_loop,
                    step, step_sizes, rep, val_idx, fresh_charge, cycle_press, hist >>

\* Lines 176-183 and the loop header 169: one frame of the charge loop
ChargeFrame ==
    /\ pc = "charge_frame"
    /\ pixels' = ChargeShift(pixels, iteration, evil)
    /\ strip' = FrameOf(pixels')
    /\ iteration' = iteration + 1
    /\ pc' = IF iteration + 1 < num_leds * num_times_to_charge THEN "r135" ELSE "step_sizes"
    /\ abort_age' = AgeAfterFrame
    /\ since_poll' = since_poll + 1
    /\ UNCHANGED << flags, evil, irqv, phase, should_restart_main_loop,
                    step, step_sizes, rep, val_idx, fresh_charge, cycle_press, hist >>

\* Lines 191-194: the fade steps are fixed from the intensities at fade entry
ComputeStepSizes ==
    /\ pc = "step_sizes"
    /\ step_sizes' = [ i \in Pix |-> target_value - pixels[i].intensity ]
    /\ phase' = "fade"
    /\ step' = 0
    /\ pc' = "r135"
    /\ UNCHANGED << flags, evil, irqv, pixels, strip, should_restart_main_loop,
                    iteration, rep, val_idx, ghost, hist >>

\* Lines 201-205: the intensities after one frame of the fade loop
FadeShift(px, sizes, is_evil) ==
    [ i \in Pix |-> set_pixel_intensity(FadeStepValue(px[i].intensity, sizes[i]), is_evil) ]

\* Variant: the fade loop without its call of refresh_and_check_state
FadeFrame_NoPoll ==
    /\ pc = "fade_frame"
    /\ pixels' = FadeShift(pixels, step_sizes, evil)
    /\ strip' = FrameOf(pixels')
    /\ step' = step + 1
    /\ pc' = IF step + 1 < num_steps THEN "fade_frame" ELSE "snap"
    /\ abort_age' = AgeAfterFrame
    /\ since_poll' = since_poll + 1
    /\ UNCHANGED << flags, evil, irqv, phase, should_restart_main_loop,
                    iteration, step_sizes, rep, val_idx, fresh_charge, cycle_press, hist >>

\* Lines 201-206 and the loop header 197: one frame of the fade loop
FadeFrame ==
    /\ pc = "fade_frame"
    /\ pixels' = FadeShift(pixels, step_sizes, evil)
    /\ strip' = FrameOf(pixels')
    /\ step' = step + 1
    /\ pc' = IF step + 1 < num_steps THEN "r135" ELSE "snap"
    /\ abort_age' = AgeAfterFrame
    /\ since_poll' = since_poll + 1
    /\ UNCHANGED << flags, evil, irqv, phase, should_restart_main_loop,
                    iteration, step_sizes, rep, val_idx, fresh_charge, cycle_press, hist >>

\* Lines 213-214: the intensities after the final pass
SnapShift(px, is_evil) ==
    [ i \in Pix |-> set_pixel_intensity(SnapValue(px[i].intensity), is_evil) ]

\* Lines 213-224: the final pass to the target value, then the resonate set-up
FinalSnap ==
    /\ pc = "snap"
    /\ pixels' = SnapShift(pixels, evil)
    /\ strip' = FrameOf(pixels')
    /\ phase' = "resonate"
    /\ rep' = 0
    /\ pc' = "r135"
    /\ abort_age' = AgeAfterFrame
    /\ since_poll' = since_poll + 1
    /\ UNCHANGED << flags, evil, irqv, should_restart_main_loop,
                    iteration, step, step_sizes, val_idx, fresh_charge, cycle_press, hist >>

\* Lines 229-230: the intensities after one frame of a resonate repetition
ResonateShift(px, idx, is_evil) ==
    [ i \in Pix |-> IF i >= starting_point_for_resonating
                      THEN set_pixel_intensity(resonating_values[idx], is_evil)
                      ELSE px[i] ]

\* Variant: the repetitions are not counted (while True instead of range(5))
ResonateFrame_Endless ==
    /\ pc = "res_frame"
    /\ pixels' = ResonateShift(pixels, val_idx, evil)
    /\ strip' = FrameOf(pixels')
    /\ IF val_idx < Len(resonating_values)
         THEN /\ val_idx' = val_idx + 1
              /\ UNCHANGED << pc, rep >>
         ELSE /\ val_idx' = 1
              /\ rep' = IF rep = 0 THEN 1 ELSE rep
              /\ pc' = "r135"
    /\ abort_age' = AgeAfterFrame
    /\ since_poll' = since_poll + 1
    /\ UNCHANGED << flags, evil, irqv, phase, should_restart_main_loop,
                    iteration, step, step_sizes, fresh_charge, cycle_press, hist >>

\* Lines 228-231 and the loop header 225: one frame of one resonate repetition
ResonateFrame ==
    /\ pc = "res_frame"
    /\ pixels' = ResonateShift(pixels, val_idx, evil)
    /\ strip' = FrameOf(pixels')
    /\ IF val_idx < Len(resonating_values)
         THEN /\ val_idx' = val_idx + 1
              /\ UNCHANGED << pc, rep >>
         ELSE /\ val_idx' = 1
              /\ rep' = rep + 1
              /\ pc' = IF rep + 1 < num_resonations THEN "r135" ELSE "r234"
    /\ abort_age' = AgeAfterFrame
    /\ since_poll' = since_poll + 1
    /\ UNCHANGED << flags, evil, irqv, phase, should_restart_main_loop,
                    iteration, step, step_sizes, fresh_charge, cycle_press, hist >>

\* Variant: the end of the cycle without line 234
EndOfCycle_KeepCharge ==
    /\ pc = "r234"
    /\ pc' = "main"
    /\ phase' = "idle"
    /\ DropLocals
    /\ UNCHANGED << flags, evil, irqv, pixels, strip, should_restart_main_loop, ghost, hist >>

\* Line 234: charge requests made while running are dropped; back to line 152
EndOfCycle ==
    /\ pc = "r234"
    /\ charge_requested' = FALSE
    /\ pc' = "main"
    /\ phase' = "idle"
    /\ DropLocals
    /\ UNCHANGED << toggle_good_evil_requested, abort_requested, evil, irqv, pixels, strip,
                    should_restart_main_loop, ghost, hist >>

\* Lines 236-237: an exception raised inside the try block (161-234) is
\* printed and the while loop goes round; nothing else is done, line 234
\* included.  The exception is taken between two steps of the main loop.
Fault ==
    /\ InCycle
    /\ faults < MaxFaults
    /\ faults' = faults + 1
    /\ pc' = "main"
    /\ phase' = "idle"
    /\ DropLocals
    /\ UNCHANGED << flags, evil, irqv, pixels, strip, should_restart_main_loop,
                    ghost, started, stale_abort >>

(***************************************************************************)
(* Specifications                                                          *)
(***************************************************************************)
Next ==
    \/ handler_charge
    \/ handler_trigger_good_evil
    \/ handler_should_abort
    \/ initialize_charge_button
    \/ initialize_good_evil_button
    \/ initialize_off_button
    \/ MainLoopTop
    \/ Sleep
    \/ CheckAbort
    \/ turn_off
    \/ TurnOffClearAbort
    \/ AbortClearAbort
    \/ AbortClearCharge
    \/ CheckToggle
    \/ ToggleGoodEvil
    \/ ClearToggle
    \/ CheckCharge
    \/ DismissAbort
    \/ ChargeFrame
    \/ ComputeStepSizes
    \/ FadeFrame
    \/ FinalSnap
    \/ ResonateFrame
    \/ EndOfCycle

Spec == Init /\ [][Next]_vars

\* The interrupt side alone, with the rising edges that find no handler
\* registered made visible (they change no program state, only `edges`)
IrqNext ==
    \/ handler_charge
    \/ handler_trigger_good_evil
    \/ handler_should_abort
    \/ \E l \in Lines : IgnoredEdge(l)
    \/ initialize_charge_button
    \/ initialize_good_evil_button
    \/ initialize_off_button

IrqSpec == Init /\ [][IrqNext]_vars

TimerNext ==
    \/ initialize_charge_button
    \/ initialize_good_evil_button
    \/ initialize_off_button

\* The program with exceptions raised inside the try block
FaultNext == Next \/ Fault

FaultSpec == Init /\ [][FaultNext]_vars

(***************************************************************************)
(* The main loop alone, started with the flags, the colour scheme and the  *)
(* intensities drawn from all their values, either at the head of the      *)
(* while loop or at the entry of the fade (line 191).  Pixel i starts at   *)
(* (seed + 37 * i) mod 256, so every pixel sees every intensity            *)
(* of 0..255.                                                              *)
(***************************************************************************)
SeedPixels(seed, is_evil) ==
    [ i \in Pix |-> set_pixel_intensity((seed + 37 * i) % (max_val + 1), is_evil) ]

SeqInit ==
    /\ charge_requested \in BOOLEAN
    /\ toggle_good_evil_requested \in BOOLEAN
    /\ abort_requested \in BOOLEAN
    /\ evil \in BOOLEAN
    /\ irq = [ l \in Lines |-> TRUE ]
    /\ timer = "none"
    /\ \E seed \in 0 .. max_val : pixels = SeedPixels(seed, evil)
    /\ strip = FrameOf(pixels)
    /\ \/ pc = "main" /\ phase = "idle" /\ iteration = 0
       \/ pc = "step_sizes" /\ phase = "charge"
                            /\ iteration = num_leds * num_times_to_charge
    /\ should_restart_main_loop = FALSE
    /\ step = 0
    /\ step_sizes = [ i \in Pix |-> 0 ]
    /\ rep = 0
    /\ val_idx = 1
    /\ edges = [ l \in Lines |-> 0 ]
    /\ sets = [ l \in Lines |-> 0 ]
    /\ abort_age = -1
    /\ since_poll = 0
    /\ fresh_charge = FALSE
    /\ cycle_press = FALSE
    /\ started = FALSE
    /\ stale_abort = FALSE
    /\ faults = 0

SeqNext ==
    \/ MainLoopTop
    \/ Sleep
    \/ CheckAbort
    \/ turn_off
    \/ TurnOffClearAbort
    \/ AbortClearAbort
    \/ AbortClearCharge
    \/ CheckToggle
    \/ ToggleGoodEvil
    \/ ClearToggle
    \/ CheckCharge
    \/ DismissAbort
    \/ ChargeFrame
    \/ ComputeStepSizes
    \/ FadeFrame
    \/ FinalSnap
    \/ ResonateFrame
    \/ EndOfCycle

SeqSpec == SeqInit /\ [][SeqNext]_vars

\* The main loop runs on for ever and a programmed timer expires; nothing
\* obliges a button to be pressed
FairSpec == Spec /\ WF_vars(SeqNext) /\ WF_vars(TimerNext)

\* The main loop, as the one thread of the program, keeps running: whichever
\* of its steps is next is eventually taken.  The frame of the charge loop
\* is named by its change of position, which no other step makes.
LoopNext == pc # "charge_frame" /\ SeqNext
ChargeFrameMoves == pc = "charge_frame" /\ pc' \in {"r135", "step_sizes"}
CycleFairSpec == Spec /\ WF_vars(LoopNext) /\ WF_pc(ChargeFrameMoves)

(***************************************************************************)
(* Abort handling applied outside a cycle: a driver sets abort_requested   *)
(* and calls refresh_and_check_state from the idle wait, again and again,  *)
(* starting from any intensities, colour scheme and flags.                 *)
(***************************************************************************)
CallAbortHandling ==
    /\ pc = "main"
    /\ abort_requested' = TRUE
    /\ pc' = "r135"
    /\ UNCHANGED << charge_requested, toggle_good_evil_requested, evil, irqv, pixels, strip,
                    phase, should_restart_main_loop, iteration, step, step_sizes, rep, val_idx,
                    ghost, hist >>

AbortInit == SeqInit /\ pc = "main"

AbortNext ==
    \/ CallAbortHandling
    \/ CheckAbort
    \/ turn_off
    \/ TurnOffClearAbort
    \/ AbortClearAbort
    \/ AbortClearCharge

AbortSpec == AbortInit /\ [][AbortNext]_vars

TypeOK ==
    /\ charge_requested \in BOOLEAN
    /\ toggle_good_evil_requested \in BOOLEAN
    /\ abort_requested \in BOOLEAN
    /\ evil \in BOOLEAN
    /\ irq \in [ Lines -> BOOLEAN ]
    /\ timer \in Lines \cup {"none"}
    /\ pc \in {"main", "sleep", "r135", "turn_off", "r244", "r137", "r138", "r140", "toggle",
               "r145", "r146", "r147", "charge_frame", "step_sizes", "fade_frame", "snap",
               "res_frame", "r234"}
    /\ phase \in {"idle", "charge", "fade", "resonate"}
    /\ iteration \in 0 .. (num_leds * num_times_to_charge)
    /\ step \in 0 .. num_steps
    /\ rep \in 0 .. num_resonations
    /\ val_idx \in 1 .. Len(resonating_values)

(***************************************************************************)
(* Properties                                                              *)
(***************************************************************************)
Intensities(px) == [ i \in Pix |-> px[i].intensity ]
AllIntensities(px, v) == \A i \in Pix : px[i].intensity = v
PhaseRank(ph) == CASE ph = "idle" -> 0 [] ph = "charge" -> 1
                   [] ph = "fade" -> 2 [] ph = "resonate" -> 3

\* C1: once the abort handler has set abort_requested during the charge
\* (propagate) phase, at most one more frame is flushed before turn_off sets
\* all intensities to 0; no second frame and no frame of a later phase
\* follows with the press still unanswered.
C1_MidChargeAbort == abort_age <= 1

C3_OneSetPerBurst == \A l \in Lines : edges[l] >= 1 => sets[l] = 1

\* a burst of at least two edges on one line
C3_Witness == \E l \in Lines : edges[l] >= 2 /\ edges[l] = MaxEdges /\ sets[l] = 1

\* C4: a line whose edge detection is disabled has its re-arm callback
\* pending, so that the line is armed again when the timer expires.
C4_CoolingLineHasTimer == \A l \in Lines : ~irq[l] => timer = l

\* C5: abort_requested and toggle_good_evil_requested go from true to false
\* only on the path the main loop takes after reading that flag true.
C5_ClearedOnlyAfterObserved ==
    [][ /\ (abort_requested /\ ~abort_requested') => pc \in {"r244", "r137"}
        /\ (toggle_good_evil_requested /\ ~toggle_good_evil_requested') => pc = "r145"
      ]_vars

C7_ToggleKeepsTrajectory ==
    [][ /\ (pc = "toggle" /\ pc' = "r145") =>
             /\ Intensities(pixels') = Intensities(pixels)
             /\ evil' = ~evil
             /\ << phase, iteration, step, step_sizes, rep >>'
                  = << phase, iteration, step, step_sizes, rep >>
        /\ (pc = "charge_frame" /\ iteration' # iteration) =>
             Intensities(pixels') = Intensities(ChargeShift(pixels, iteration, ~evil))
        /\ (pc = "fade_frame" /\ step' # step) =>
             Intensities(pixels') = Intensities(FadeShift(pixels, step_sizes, ~evil))
        /\ (pc = "res_frame" /\ val_idx' # val_idx) =>
             Intensities(pixels') = Intensities(ResonateShift(pixels, val_idx, ~evil))
      ]_vars

\* a toggle was consumed in the middle of the charge phase, with pixels lit
C7_Witness ==
    /\ pc = "r145" /\ phase = "charge" /\ iteration > 0
    /\ \E i \in Pix : pixels[i].intensity > 0

\* C8: right after the final snap, which follows exactly num_steps fade
\* frames, every intensity is target_value.
C8_FadeConvergence ==
    (pc = "r135" /\ phase = "resonate" /\ rep = 0) =>
        /\ step = num_steps
        /\ AllIntensities(pixels, target_value)

\* after the snap, with a pixel that entered the fade at 254 (its fade loop
\* ends one short of the target)
C8_Witness ==
    /\ pc = "r135" /\ phase = "resonate" /\ rep = 0
    /\ \E i \in Pix : step_sizes[i] = target_value - 254
    /\ AllIntensities(pixels, target_value)

\* C9: every channel of the frame last written is in 0..255.
C9_ChannelsInRange ==
    \A i \in Pix : \A c \in 1 .. 3 : strip[i][c] \in 0 .. 255

\* the fade loop has run with a pixel that started at 36 and was clamped at 0
C9_Witness ==
    /\ pc = "snap"
    /\ \E i \in Pix : step_sizes[i] = target_value - 36 /\ pixels[i].intensity = 0

\* C10: the frame last written is, pixel by pixel, (0, intensity, 0) in the
\* good scheme and (intensity, 0, intensity) in the evil scheme.
C10_ChannelConsistency ==
    \A i \in Pix :
        strip[i] = IF evil THEN << pixels[i].intensity, 0, pixels[i].intensity >>
                           ELSE << 0, pixels[i].intensity, 0 >>

\* right after a toggle to the evil scheme with pixels lit
C10_Witness ==
    /\ pc = "r145" /\ evil
    /\ \E i \in Pix : pixels[i].intensity > 0 /\ strip[i][1] = pixels[i].intensity

AllOff(px) == \A i \in Pix : px[i] = [intensity |-> 0, red |-> 0, green |-> 0, blue |-> 0]
DarkFrame == [ i \in Pix |-> << 0, 0, 0 >> ]

\* C11: once the abort is observed, turn_off sets every intensity to 0 and
\* flushes the dark frame; then abort_requested and charge_requested are
\* cleared and the loop goes back to its head (from the resonate phase over
\* line 234), without another frame being written on the way.
C11_AbortAbandonsCycle ==
    [][ /\ (pc = "turn_off" /\ pc' # pc) =>
             (pc' = "r244" /\ AllIntensities(pixels', 0) /\ strip' = DarkFrame)
        /\ pc \in {"r244", "r137", "r138", "r234"} => strip' = strip
        /\ (pc = "r244" /\ pc' # pc) => (pc' = "r137" /\ ~abort_requested')
        /\ (pc = "r137" /\ pc' # pc) => (pc' = "r138" /\ ~abort_requested')
        /\ (pc = "r138" /\ pc' # pc) =>
             (~charge_requested' /\ pc' = IF phase = "resonate" THEN "r234" ELSE "main")
        /\ (pc = "r234" /\ pc' # pc) => (pc' = "main" /\ ~charge_requested')
      ]_vars

\* an abort observed in the resonate phase: the strip is dark and the loop
\* is on its way back to the idle wait
C11_Witness ==
    /\ pc = "r234" /\ phase = "resonate" /\ rep < num_resonations
    /\ AllIntensities(pixels, 0) /\ strip = DarkFrame

\* C12: a toggle request pending while the loop is in its idle wait is
\* eventually consumed.
C12_IdleToggleConsumed ==
    (toggle_good_evil_requested /\ ~InCycle) ~> ~toggle_good_evil_requested

\* C13: when an exception ends a cycle, the loop is back at its head with no
\* charge request pending, so that only a later press starts a cycle.
C13_FaultReturnsToIdleWait ==
    [][ faults' # faults => (pc' = "main" /\ ~charge_requested') ]_vars

\* C14: after abort handling outside a cycle the strip is dark and abort and
\* charge requests are cleared; the colour scheme never changes; and a
\* further abort handling changes neither the pixels, the frame nor
\* charge_requested, so it ends in the state the one before ended in.
C14_IdempotentAbort ==
    /\ []((pc = "main" /\ should_restart_main_loop) =>
            (AllOff(pixels) /\ strip = DarkFrame /\ ~abort_requested /\ ~charge_requested))
    /\ [][evil' = evil]_vars
    /\ [][ (should_restart_main_loop /\ pc \in {"turn_off", "r244", "r137", "r138"}) =>
             (pixels' = pixels /\ strip' = strip /\ charge_requested' = charge_requested)
         ]_vars

\* abort handling is being performed again after a first one, in the evil
\* scheme
C14_Witness ==
    /\ pc = "r138" /\ should_restart_main_loop /\ evil
    /\ AllOff(pixels) /\ ~abort_requested

\* Lines 221-222: the shape of a resonance table: from 0 in unit steps up to
\* a single peak and in unit steps down to 1
Triangular(t, peak) ==
    /\ t[1] = 0
    /\ t[Len(t)] = 1
    /\ \A j \in 1 .. (Len(t) - 1) : t[j + 1] - t[j] \in {1, -1}
    /\ \A j \in 1 .. Len(t) : t[j] <= peak
    /\ Cardinality({ j \in 1 .. Len(t) : t[j] = peak }) = 1

\* the main loop is about to poll, or to leave, after a whole repetition
AfterRepetition ==
    /\ phase = "resonate"
    /\ \/ pc = "r135" /\ rep >= 1
       \/ pc = "r234" /\ rep = num_resonations

\* C15 (as stated): a resonate repetition uses table positions 1 to 39 and
\* flushes 39 frames.
C15_Table39 ==
    /\ val_idx <= 39
    /\ AfterRepetition => since_poll = 39

\* C15 (amended): the resonance offset table has 40 entries, from 0 in unit
\* steps up to a single peak of 20 and down to 1; one resonate repetition
\* flushes 40 frames, one per entry.
C15_Table40 ==
    /\ Len(resonating_value_modifiers) = 40
    /\ Triangular(resonating_value_modifiers, 20)
    /\ val_idx <= 40
    /\ AfterRepetition => since_poll = 40

\* the first repetition has been flushed and no abort is waiting
C15_Witness ==
    /\ pc = "r135" /\ phase = "resonate" /\ rep = 1 /\ since_poll = 40
    /\ ~abort_requested

\* C16: at construction the three flags are false, the scheme is the good
\* one and every intensity is 0; until the first cycle starts every pixel
\* stays off and the frame stays dark, whatever was pressed.
C16_DarkUntilFirstCycle ==
    /\ ~charge_requested /\ ~toggle_good_evil_requested /\ ~abort_requested
    /\ ~evil
    /\ AllIntensities(pixels, 0)
    /\ [](~started => (AllOff(pixels) /\ strip = DarkFrame))

\* toggle and abort were pressed before any cycle started
C16_Witness ==
    /\ ~started /\ toggle_good_evil_requested /\ abort_requested
    /\ pc = "sleep" /\ AllOff(pixels)

\* The request flag a line's handler sets
FlagOf ==
    [ charge |-> charge_requested, good_evil |-> toggle_good_evil_requested,
      off |-> abort_requested ]

\* C17: a handler execution (the step that unregisters line l) sets the
\* flag of l, programs the timer for l and changes no other flag, no other
\* line's registration, not the colour scheme, no pixel, not the frame and
\* not the main loop's position; a timer callback (the step that registers
\* line l again) changes no flag, no other line's registration, not the
\* colour scheme, no pixel, not the frame and not the main loop's position,
\* and the timer that fired is no longer pending.
C17_InterruptFrame ==
    [][ \A l \in Lines :
          /\ (irq[l] /\ ~irq'[l]) =>
               /\ FlagOf'[l]
               /\ timer' = l
               /\ \A m \in Lines \ {l} : FlagOf'[m] = FlagOf[m] /\ irq'[m] = irq[m]
               /\ evil' = evil /\ pixels' = pixels /\ strip' = strip /\ loopv' = loopv
          /\ (~irq[l] /\ irq'[l]) =>
               /\ FlagOf' = FlagOf
               /\ timer' = "none"
               /\ \A m \in Lines \ {l} : irq'[m] = irq[m]
               /\ evil' = evil /\ pixels' = pixels /\ strip' = strip /\ loopv' = loopv
      ]_vars

\* the moral handler ran in the middle of the charge phase, with pixels lit
C17_Witness ==
    /\ phase = "charge" /\ pc = "charge_frame" /\ iteration >= 1
    /\ ~irq["good_evil"] /\ timer = "good_evil" /\ toggle_good_evil_requested
    /\ ~evil /\ ~AllIntensities(pixels, 0)

\* The re-arm timers pending for line l: the one Timer object holds at most
\* one callback
PendingTimers(l) == IF timer = l THEN 1 ELSE 0

\* C18: no line has more than one pending re-arm timer: a timer is pending
\* for a line only while the line's handler is unregistered, and a handler
\* execution for a line happens only when no timer is pending for that line
\* and leaves exactly one pending.
C18_OnePendingTimerPerLine ==
    /\ [](\A l \in Lines : PendingTimers(l) <= 1 /\ (PendingTimers(l) = 1 => ~irq[l]))
    /\ [][ \A l \in Lines :
             (irq[l] /\ ~irq'[l]) => (PendingTimers(l) = 0 /\ PendingTimers(l)' = 1)
         ]_vars

\* two lines are waiting for their re-arm and the timer is pending for the
\* one pressed last
C18_Witness ==
    /\ ~irq["charge"] /\ ~irq["off"] /\ irq["good_evil"]
    /\ PendingTimers("off") = 1 /\ PendingTimers("charge") = 0

\* C19: a cycle is never cancelled at its first poll by an abort press made
\* before the charge press that started the cycle.
C19_StaleAbortDismissed ==
    ~(pc = "turn_off" /\ phase = "charge" /\ iteration = 0 /\ stale_abort)

\* C20: the charge loop is left for the fade only after 2 * num_leds frames,
\* the fade loop for the final pass only after num_steps frames, the
\* resonate loop only after 5 whole repetitions of the table or by an abort
\* that turned the strip off; the phases follow each other in this order
\* and each frame action belongs to the phase the loop is in.
C20_PhaseOrdering ==
    /\ [](/\ pc = "step_sizes" => (phase = "charge" /\ iteration = 2 * num_leds)
          /\ phase \in {"fade", "resonate"} => iteration = 2 * num_leds
          /\ pc = "charge_frame" => (phase = "charge" /\ iteration < 2 * num_leds)
          /\ pc = "fade_frame" => (phase = "fade" /\ step < num_steps)
          /\ pc = "snap" => (phase = "fade" /\ step = num_steps)
          /\ phase = "resonate" => step = num_steps
          /\ pc = "res_frame" => (phase = "resonate" /\ rep < num_resonations)
          /\ pc = "r234" =>
               /\ phase = "resonate"
               /\ \/ rep = num_resonations /\ val_idx = 1
                                           /\ since_poll = Len(resonating_values)
                  \/ AllOff(pixels) /\ strip = DarkFrame)
    /\ [][ phase' # phase =>
             \/ phase = "idle" /\ phase' = "charge" /\ pc = "main"
             \/ phase = "charge" /\ phase' = "fade" /\ pc = "step_sizes"
             \/ phase = "fade" /\ phase' = "resonate" /\ pc = "snap"
             \/ phase' = "idle" /\ pc \in {"r138", "r234"}
         ]_vars

\* a cycle ran through its three phases and is about to return to the idle
\* wait, with the last table entry shown
C20_Witness ==
    /\ pc = "r234" /\ rep = num_resonations /\ iteration = 2 * num_leds
    /\ step = num_steps
    /\ \E i \in Pix : pixels[i].intensity = target_value + 1

\* Line 193: the intensity pixel i held when the fade steps were fixed
FadeEntryIntensity(i) == target_value - step_sizes[i]

\* The fade loop is running and turn_off has not changed the pixels
InFadeLoop == phase = "fade" /\ pc \notin {"r244", "r137", "r138"}

C22_PropagateStep ==
    [][ /\ (pc = "charge_frame" /\ iteration' # iteration) =>
             /\ \A i \in 1 .. (num_leds - 1) :
                    pixels'[i].intensity = pixels[i - 1].intensity
             /\ pixels'[0].intensity = ChargeWaveValue(iteration)
        /\ (phase = "charge" /\ pc \in {"r135", "r140", "toggle", "r145", "r146", "r147"}) =>
             Intensities(pixels') = Intensities(pixels)
      ]_vars

\* the third frame of the charge loop is about to shift pixels that differ
\* from each other and were recoloured in the evil scheme
C22_Witness ==
    /\ pc = "charge_frame" /\ phase = "charge" /\ iteration = 2
    /\ evil /\ pixels[0].red = ChargeWaveValue(1)
    /\ pixels[0].intensity # pixels[1].intensity
    /\ ~toggle_good_evil_requested

\* int(n * (w - 1) / w + 1): the first index of the resonating range of a
\* strip of n pixels charged with w waves
ResonanceStart(n, w) == (n * (w - 1) + w) \div w

\* The table position of the resonate frame written last, 0 if none was
LastEntry ==
    IF val_idx > 1 THEN val_idx - 1
    ELSE IF rep >= 1 THEN Len(resonating_value_modifiers) ELSE 0

\* The resonate loop is running and turn_off has not changed the pixels
InResonateLoop ==
    /\ phase = "resonate"
    /\ pc \notin {"r244", "r137", "r138"}
    /\ pc = "r234" => rep = num_resonations

C24_CycleTerminates == InCycle ~> ~InCycle

\* a cycle that saw a charge press and a toggle ran through its last
\* repetition and is back at the head of the loop
C24_Witness ==
    /\ pc = "main" /\ started /\ cycle_press /\ evil
    /\ pixels[num_leds - 1].intensity = target_value + 1

====
